---- MODULE Spec2Model ----
(***************************************************************************)
(* organixm: A/B image update tools (tools/src/lib.rs and the binaries     *)
(* update, init (provision) and success (commit-boot-success)).            *)
(*                                                                         *)
(* The model is a state machine over the position of the running binary    *)
(* (prog, pc), the values its main_inner holds, and the parts of the       *)
(* machine it acts on: the root partitions' bytes, the bootloader          *)
(* configuration and the /boot mount.  Every external command and every    *)
(* fallible file operation either succeeds or fails.  Times are seconds.   *)
(***************************************************************************)
EXTENDS Integers, Sequences, FiniteSets, TLC

\* ------------------------------------------------------------------ bounds
\* longest image (manifest digest preimage, manifest size) and download stream
MaxImage == 3
\* bytes a root partition holds
PartCap == 2
\* standalone retry: largest total budget, period and probe duration drawn
MaxTotal == 2
MaxPeriod == 2
MaxProbeTime == 2
\* largest root-slot size (GiB) a provisioning config asks for
MaxSlotGiB == 128
\* largest exit status an external command returns
MaxExit == 2
\* runs of update that follow the first one before the machine reboots
MaxReruns == 1

\* ------------------------------------------------------- program constants
\* update.rs: retry(&log, Duration::minutes(10), Duration::seconds(10), ..)
NetTotal == 600
NetPeriod == 10
\* init.rs: retry(&log, Duration::minutes(5), Duration::seconds(10), ..)
DevTotal == 300
DevPeriod == 10

BOOT_LABEL == "boot"
ROOT_LABELS == <<"organixm-a", "organixm-b">>

\* Option::None of LsblkDevice.partlabel / .mountpoint
None == "none"

Byte == {0, 1}

\* ------------------------------------------------------------ pure helpers
Min(a, b) == IF a <= b THEN a ELSE b

SeqsUpTo(S, n) == UNION {[1..k -> S] : k \in 0..n}

\* Read::take(size): the first size bytes, all of them when there are fewer
Take(s, n) == SubSeq(s, 1, Min(n, Len(s)))

Drop(s, n) == SubSeq(s, n + 1, Len(s))

\* format!("{:x}", Sha256::finalize()): the digest of a byte sequence, as a
\* collision-free code of the sequence (bijective numeration over Byte)
RECURSIVE Sha256(_)
Sha256(s) ==
    IF s = <<>> THEN 0
    ELSE Sha256(SubSeq(s, 1, Len(s) - 1)) * Cardinality(Byte) + s[Len(s)] + 1

\* a digest of the whole file, whatever size says
file_digest_Whole(bytes, size) == Sha256(bytes)

\* file_digest(path, size): the digest of the first size bytes of the file
file_digest(bytes, size) == Sha256(Take(bytes, size))

\* ---------------------------------------------------- lsblk / find_root_parts
MkPart(i, j, label, mp) ==
    [path |-> <<i, j>>, type_field |-> "part", mountpoint |-> mp,
     partlabel |-> label, children |-> <<>>]

\* a top-level device of lsblk's tree: kids is its partitions' (label, mountpoint)
MkDisk(i, type, kids) ==
    [path |-> <<i>>, type_field |-> type, mountpoint |-> None, partlabel |-> None,
     children |-> [j \in 1..Len(kids) |-> MkPart(i, j, kids[j][1], kids[j][2])]]

IsRootLabel(label) == \E k \in 1..Len(ROOT_LABELS) : ROOT_LABELS[k] = label

\* the body of `for part in &lsblk_parent.children`: push the parts whose label
\* is Some and is one of ROOT_LABELS
RootChildren(parent) ==
    SelectSeq(parent.children, LAMBDA part : part.partlabel # None /\ IsRootLabel(part.partlabel))

\* `for lsblk_parent in lsblk_res`, from device i on, with `out` as collected so far
RECURSIVE FindLoop(_, _, _)
FindLoop(lsblk_res, i, out) ==
    IF i > Len(lsblk_res)
    THEN [ok |-> FALSE, found |-> Len(out)]
    ELSE LET lsblk_parent == lsblk_res[i] IN
         IF lsblk_parent.type_field # "disk"
         THEN FindLoop(lsblk_res, i + 1, out)
         ELSE LET out2 == out \o RootChildren(lsblk_parent) IN
              IF Len(out2) = 2
              THEN [ok |-> TRUE, disk |-> lsblk_parent, parts |-> out2]
              ELSE FindLoop(lsblk_res, i + 1, out2)

find_root_parts(lsblk_res) == FindLoop(lsblk_res, 1, <<>>)

\* ---------------------------------------------------------------- state
VARIABLES
    prog,             \* the binary that runs: "update", "provision", "success",
                      \* or a bare call of "retry" / "find_root_parts"
    pc,               \* its position in main_inner
    result,           \* what main_inner returned: "running", "Ok" or an error
    trace,            \* the external operations performed so far, in order
    new,              \* update: the fetched ExternalMeta
    root_disk,        \* path of the root disk
    root_parts,       \* the two partitions find_root_parts returned
    part_i,           \* update: index of `for part in root_parts`
    found_current,
    found_other_part,
    other_digest,     \* update: the last file_digest of an unmounted root partition
    content,          \* bytes held by the root partitions read or written so far
    digest,           \* bytes fed to ProxyWrite.a (the Sha256 accumulator)
    written,          \* bytes accepted by ProxyWrite.b (the partition file)
    pending,          \* bytes of the decompressed stream not yet accepted
    stream,           \* the decompressed stream of this download
    download_digest,  \* update: format!("{:x}", digest.finalize())
    cfg,              \* /boot/grub/grub.cfg: the menu entries, first is tried first
    cfg0,             \* its value when the run started
    mount_held,       \* a Mount value for /boot is alive
    scope_res,        \* result of the block holding the Mount, before the drop
    r_pc, r_total, r_period, r_elapsed, r_count, r_calls, r_last, r_sleeps, r_ret,
    wait_i,           \* provision: index of `for path in &[rw_path, &boot_path]`
    lsblk_res,        \* find_root_parts alone: what lsblk printed
    frp,              \* find_root_parts alone: what it returned
    config_size,      \* provision: config.size, the size of a root slot in GiB
    parted_script,    \* provision: the commands given to `parted --script`
    runs,             \* update: number of earlier runs since the machine booted
    prev              \* update: what the run before this one fetched and reached

runVars == <<prog, pc, result, trace>>
updVars == <<new, root_disk, root_parts, part_i, found_current, found_other_part,
            other_digest>>
dlVars == <<digest, written, pending, stream, download_digest>>
bootVars == <<cfg, cfg0, mount_held, scope_res>>
retryVars == <<r_pc, r_total, r_period, r_elapsed, r_count, r_calls, r_last, r_sleeps, r_ret>>
findVars == <<lsblk_res, frp>>
diskVars == <<content>>
partVars == <<config_size, parted_script>>
histVars == <<runs, prev>>
vars == <<runVars, updVars, diskVars, dlVars, bootVars, retryVars, wait_i, findVars, partVars, histVars>>

CurrentUuid == "v1"
Uuids == {"v1", "v2"}
NoMeta == [uuid |-> "", sha256 |-> 0, size |-> 0, format |-> ""]
NoPath == <<>>
NoDigest == 0 - 1
NoRet == [ok |-> FALSE, err |-> "", attempts |-> 0, elapsed |-> 0]
NoFrp == [ok |-> FALSE, found |-> 0]
NoPrev ==
    [new |-> NoMeta, verified |-> FALSE, installed |-> FALSE, rebooted |-> FALSE,
     image_len |-> 0, root_disk |-> NoPath, root_parts |-> <<>>, content |-> <<>>]

Images == SeqsUpTo(Byte, MaxImage)
\* every ExternalMeta the server may publish
Manifests ==
    [uuid : Uuids, sha256 : {Sha256(s) : s \in Images}, size : 0..MaxImage,
     format : {"raw"}]
\* a root partition is a block device of PartCap bytes
Contents == [1..PartCap -> Byte]

Ev(op, ok, arg) == [op |-> op, ok |-> ok, arg |-> arg]
Did(op) == \E k \in 1..Len(trace) : trace[k].op = op
DidOk(op) == \E k \in 1..Len(trace) : trace[k].op = op /\ trace[k].ok
Count(op) == Cardinality({k \in 1..Len(trace) : trace[k].op = op})

IsErr(r) == r \notin {"running", "Ok"}

\* `return Err(..)` / `?` out of main_inner
Fail(err) == pc' = "done" /\ result' = err
\* a retry that gives up as soon as the budget is spent
GiveUp_BudgetOnly(elapsed, total_time, count) == elapsed >= total_time

\* a retry that gives up only once the budget is exceeded
GiveUp_Strict(elapsed, total_time, count) == elapsed > total_time /\ count >= 2

\* --------------------------------------------------------------- retry
\* lib.rs retry: `if elapsed >= total_time && count >= 2`
GiveUp(elapsed, total_time, count) == elapsed >= total_time /\ count >= 2
\* a retry that sleeps twice between attempts
SleepLog_Twice(sleeps, period) == Append(Append(sleeps, period), period)

\* thread::sleep(period.to_std().unwrap()): one more sleep, of the period
SleepLog(sleeps, period) == Append(sleeps, period)

\* what the closure passed to retry may return; a run of update started again
\* after one that downloaded the image finds the default route still there
ProbeResults ==
    CASE prog = "update" /\ runs > 0 -> {"Ok"}
      [] prog = "update" -> {"Ok", "No default route found yet", "Checking for gateway route"}
      [] prog = "provision" -> {"Ok", "doesn't exist for mkfs yet"}
      [] OTHER -> {"Ok", "e1", "e2"}

ProbeTimes == 0..MaxProbeTime

RetryIdle ==
    /\ r_pc' = "idle" /\ r_total' = 0 /\ r_period' = 0 /\ r_elapsed' = 0
    /\ r_count' = 0 /\ r_calls' = 0 /\ r_last' = "" /\ r_sleeps' = <<>> /\ r_ret' = NoRet

\* entry of retry: `let start = Utc::now(); let mut count = 0;`
RetryBegin(total_time, period) ==
    /\ r_pc' = "loop" /\ r_total' = total_time /\ r_period' = period
    /\ r_elapsed' = 0 /\ r_count' = 0 /\ r_calls' = 0 /\ r_last' = ""
    /\ r_sleeps' = <<>> /\ r_ret' = NoRet

\* one turn of the loop up to the sleep: count += 1; f(); now - start; give up?
\* d is the time the probe took
RetryAttempt ==
    /\ r_pc = "loop"
    /\ \E out \in ProbeResults, d \in ProbeTimes :
         LET count == r_count + 1
             elapsed == r_elapsed + d
         IN /\ r_count' = count
            /\ r_calls' = r_calls + 1
            /\ r_last' = out
            /\ r_elapsed' = elapsed
            /\ IF out = "Ok"
               THEN /\ r_ret' = [ok |-> TRUE, err |-> "", attempts |-> count, elapsed |-> elapsed]
                    /\ r_pc' = "ret"
               ELSE IF GiveUp(elapsed, r_total, count)
               THEN /\ r_ret' = [ok |-> FALSE, err |-> out, attempts |-> count, elapsed |-> elapsed]
                    /\ r_pc' = "ret"
               ELSE /\ r_ret' = r_ret
                    /\ r_pc' = "sleep"
    /\ UNCHANGED <<r_total, r_period, r_sleeps>>
    /\ UNCHANGED <<runVars, updVars, diskVars, dlVars, bootVars, wait_i, findVars, partVars, histVars>>

RetrySleep ==
    /\ r_pc = "sleep"
    /\ r_sleeps' = SleepLog(r_sleeps, r_period)
    /\ r_elapsed' = r_elapsed + r_period
    /\ r_pc' = "loop"
    /\ UNCHANGED <<r_total, r_period, r_count, r_calls, r_last, r_ret>>
    /\ UNCHANGED <<runVars, updVars, diskVars, dlVars, bootVars, wait_i, findVars, partVars, histVars>>

\* ------------------------------------------------------ what lsblk may print
\* the root-labelled partitions of one disk, each mounted at / or not mounted
RootPartCounts == 0..3
DiskCounts == 1..2
SlotMounts == UNION {[1..n -> {None, "/"}] : n \in RootPartCounts}

\* a disk as the provisioner lays it out: boot, then the root slots, labelled
\* with ROOT_LABELS in turn
SlotDisk(i, mounts) ==
    MkDisk(i, "disk",
           <<(<<BOOT_LABEL, None>>)>> \o
           [j \in 1..Len(mounts) |-> <<ROOT_LABELS[((j - 1) % 2) + 1], mounts[j]>>])

UpdateLsblk ==
    UNION {{[i \in 1..n |-> SlotDisk(i, m[i])] : m \in [1..n -> SlotMounts]} : n \in DiskCounts}

\* --------------------------------------------------------------- bootloader
\* grub_one.conf / grub_two.conf rendered: the menu entries in order
GrubOne(new_uuid) == <<new_uuid>>
GrubTwo(new_uuid, current_uuid) == <<new_uuid, current_uuid>>

\* what write_all may leave behind when it fails: a proper prefix
Prefixes(s) == {SubSeq(s, 1, k) : k \in 0..(Len(s) - 1)}
\* the uuid comparison inverted
SameVersion_Inverted(current_uuid, new_uuid) == current_uuid # new_uuid

\* -------------------------------------------------------------- update.rs
\* update.rs line 62
SameVersion(current_uuid, new_uuid) == current_uuid = new_uuid
\* the fallback comparison inverted
FallbackMatches_Inverted(alt_digest, sha256) == alt_digest # sha256

\* update.rs line 87: `if other_digest == new.sha256`
FallbackMatches(alt_digest, sha256) == alt_digest = sha256
\* a download that is never rejected
DownloadVerified_Always(dl_digest, sha256) == TRUE

\* update.rs line 125: `if download_digest != new.sha256` is the failure
DownloadVerified(dl_digest, sha256) == dl_digest = sha256

\* current_meta()?, then the call of retry for the default route
UpdStart ==
    /\ prog = "update" /\ pc = "start"
    /\ \/ /\ Fail("Failed to parse current system meta")
          /\ UNCHANGED retryVars
       \/ /\ pc' = "wait_net"
          /\ RetryBegin(NetTotal, NetPeriod)
          /\ result' = result
    /\ UNCHANGED <<prog, trace, updVars, diskVars, dlVars, bootVars, wait_i, findVars, partVars, histVars>>

\* the manifests the server may hold when a run fetches: any at all for the
\* first run; a run started again, after a failed run or after a rollback,
\* finds the manifest the run before it fetched still published
Published == IF runs = 0 THEN Manifests ELSE {prev.new}

\* retry(..)? returned; version_bucket; fetch and parse "<object_path>.meta";
\* the uuid comparison
UpdFetchMeta ==
    /\ prog = "update" /\ pc = "wait_net" /\ r_pc = "ret"
    /\ RetryIdle
    /\ \/ /\ ~r_ret.ok
          /\ Fail(r_ret.err)
          /\ UNCHANGED <<new, trace>>
       \/ /\ r_ret.ok
          /\ \E e \in {"version_bucket", "Failed to download meta for new version",
                       "Fetching new version meta"} : Fail(e)
          /\ UNCHANGED <<new, trace>>
       \/ /\ r_ret.ok
          /\ \E m \in Published :
               /\ new' = m
               /\ trace' = Append(trace, Ev("get_meta", TRUE, NoPath))
               /\ IF SameVersion(CurrentUuid, m.uuid)
                  THEN pc' = "done" /\ result' = "Ok"
                  ELSE pc' = "find" /\ result' = result
    /\ UNCHANGED <<prog, root_disk, root_parts, part_i, found_current, found_other_part,
                   other_digest, diskVars, dlVars, bootVars, wait_i, findVars, partVars, histVars>>

\* what lsblk prints: any layout for the first run since the machine was set
\* up; a later run finds the disks, and the slot mounted at /, as the run before
\* it found them
Lsblks ==
    IF runs = 0 THEN UpdateLsblk
    ELSE {t \in UpdateLsblk :
            LET r == find_root_parts(t) IN
            r.ok /\ r.disk.path = prev.root_disk /\ r.parts = prev.root_parts}

\* `let (root_disk, root_parts) = find_root_parts(&log)?;`
UpdFindRootParts ==
    /\ prog = "update" /\ pc = "find"
    /\ \/ /\ Fail("Failed to run lsblk")
          /\ trace' = Append(trace, Ev("lsblk", FALSE, NoPath))
          /\ UNCHANGED <<root_disk, root_parts, part_i>>
       \/ \E t \in Lsblks :
            LET r == find_root_parts(t) IN
            /\ trace' = Append(trace, Ev("lsblk", TRUE, NoPath))
            /\ IF r.ok
               THEN /\ root_disk' = r.disk.path
                    /\ root_parts' = r.parts
                    /\ part_i' = 1
                    /\ pc' = "slots" /\ result' = result
               ELSE /\ Fail("Expected to find 2 root partitions")
                    /\ UNCHANGED <<root_disk, root_parts, part_i>>
    /\ UNCHANGED <<prog, new, found_current, found_other_part, other_digest,
                   diskVars, dlVars, bootVars, retryVars, wait_i, findVars, partVars, histVars>>

\* one turn of `for part in root_parts`
UpdSlot ==
    /\ prog = "update" /\ pc = "slots" /\ part_i <= Len(root_parts)
    /\ LET part == root_parts[part_i] IN
       \/ /\ part.mountpoint # None
          /\ found_current' = TRUE
          /\ part_i' = part_i + 1
          /\ UNCHANGED <<pc, result, trace, found_other_part, content, other_digest>>
       \/ /\ part.mountpoint = None
          /\ found_other_part' = part.path
          /\ \/ /\ Fail("file_digest")
                /\ trace' = Append(trace, Ev("file_digest", FALSE, part.path))
                /\ UNCHANGED <<part_i, content, other_digest>>
             \/ \E c \in Contents :
                  /\ part.path \in DOMAIN content => c = content[part.path]
                  /\ content' = [p \in DOMAIN content \cup {part.path} |->
                                    IF p = part.path THEN c ELSE content[p]]
                  /\ other_digest' = file_digest(c, new.size)
                  /\ trace' = Append(trace, Ev("file_digest", TRUE, part.path))
                  /\ IF FallbackMatches(other_digest', new.sha256)
                     THEN pc' = "done" /\ result' = "Ok" /\ part_i' = part_i
                     ELSE pc' = pc /\ result' = result /\ part_i' = part_i + 1
          /\ UNCHANGED found_current
    /\ UNCHANGED <<prog, new, root_disk, root_parts, dlVars, bootVars, retryVars,
                   wait_i, findVars, partVars, histVars>>

\* a check after the loop that forgets to ask for a mounted root partition
SlotCheck_NoCurrent(found_cur, found_other) ==
    IF found_other = NoPath THEN "Unable to find alternate root device" ELSE "Ok"

\* `if !found_current { return Err }`, `found_other_part.ok_or_else(..)?`
SlotCheck(found_cur, found_other) ==
    IF ~found_cur THEN "Unable to find mounted root device"
    ELSE IF found_other = NoPath THEN "Unable to find alternate root device"
    ELSE "Ok"

\* after the loop: the two checks, then on to the download
UpdSlotsDone ==
    /\ prog = "update" /\ pc = "slots" /\ part_i > Len(root_parts)
    /\ LET chk == SlotCheck(found_current, found_other_part) IN
       IF chk # "Ok" THEN Fail(chk)
       ELSE pc' = "open" /\ result' = result
    /\ UNCHANGED <<prog, trace, updVars, diskVars, dlVars, bootVars, retryVars, wait_i, findVars, partVars, histVars>>

\* ProxyWrite::write, first line: `self.a.write(buf)?` with a the Sha256
\* accumulator, which takes all of buf
ProxyWriteA(a, buf) == a \o buf

\* ProxyWrite::write, second line: `self.b.write(buf)` returned Ok(n): the file
\* took the first n bytes of buf
ProxyWriteB(b, buf, n) == b \o Take(buf, n)

\* a device that reports the bytes as written and keeps what it held
Overwrite_Lost(old, bytes) == old

\* a block device written from its start: the bytes behind the written ones stay
Overwrite(old, bytes) == bytes \o Drop(old, Len(bytes))

\* `File::create(&other_path)` for ProxyWrite.b, then the start of
\* bucket.get_object_to_writer: s is the decompressed stream it will hand on
UpdOpenTarget ==
    /\ prog = "update" /\ pc = "open"
    /\ \/ /\ Fail("Failed to open {} for writing")
          /\ trace' = Append(trace, Ev("open_write", FALSE, found_other_part))
          /\ UNCHANGED dlVars
       \/ /\ trace' = Append(trace, Ev("open_write", TRUE, found_other_part))
          /\ \E s \in Images : stream' = s /\ pending' = s
          /\ digest' = <<>> /\ written' = <<>>
          /\ pc' = "download" /\ result' = result
          /\ UNCHANGED download_digest
    /\ UNCHANGED <<prog, updVars, diskVars, bootVars, retryVars, wait_i, findVars, partVars, histVars>>

\* the counts n for which File::write on the partition's block device returns
\* Ok(n) when offered len bytes with room bytes left before the end of the
\* device: the device takes what fits; at its end the write fails (ENOSPC)
DeviceAccepts(len, room) == {Min(len, room)} \ {0}

\* BufWriter hands ProxyWrite::write the bytes not yet accepted (flush_buf's
\* `inner.write(&buf[written..])`); the file takes n of them, or fails
UpdProxyWrite ==
    /\ prog = "update" /\ pc = "download" /\ pending # <<>>
    /\ LET buf == pending
           room == PartCap - Len(written)
       IN /\ digest' = ProxyWriteA(digest, buf)
          /\ \/ /\ Fail("Error downloading image")
                /\ UNCHANGED <<written, pending, content>>
             \/ \E n \in DeviceAccepts(Len(buf), room) :
                  /\ written' = ProxyWriteB(written, buf, n)
                  /\ pending' = Drop(buf, n)
                  /\ content' = [content EXCEPT
                                    ![found_other_part] = Overwrite(@, written')]
                  /\ UNCHANGED <<pc, result>>
    /\ UNCHANGED <<prog, trace, updVars, stream, download_digest, bootVars, retryVars,
                   wait_i, findVars, partVars, histVars>>

\* the transfer breaks off (get_object_to_writer returns an error)
UpdDownloadError ==
    /\ prog = "update" /\ pc = "download" /\ pending # <<>>
    /\ Fail("Error downloading image")
    /\ UNCHANGED <<prog, trace, updVars, diskVars, dlVars, bootVars, retryVars,
                   wait_i, findVars, partVars, histVars>>

\* writer.finish(), digest.finalize() and the comparison with new.sha256
UpdVerify ==
    /\ prog = "update" /\ pc = "download" /\ pending = <<>>
    /\ \/ /\ Fail("Failed to flush/finish output")
          /\ UNCHANGED download_digest
       \/ /\ download_digest' = Sha256(digest)
          /\ IF DownloadVerified(Sha256(digest), new.sha256)
             THEN pc' = "mount" /\ result' = result
             ELSE Fail("Downloaded digest doesn't match reported digest on server")
    /\ UNCHANGED <<prog, trace, updVars, diskVars, digest, written, pending, stream,
                   bootVars, retryVars, wait_i, findVars, partVars, histVars>>

\* -------------------------------------------------- the scoped /boot mount
\* first position inside the block that holds `_mount`
ScopeEntry ==
    CASE prog = "update" -> "cfg_create"
      [] prog = "provision" -> "mkdir_grub"
      [] OTHER -> "set_default"
\* an error return that skips the drop of the Mount
ScopeFailed_Leak == "done"

\* where control goes when `?` / `return Err` leaves the block holding `_mount`:
\* the Mount is dropped first
ScopeFailed == "drop"

\* position after the block, when it ended without error
ScopeLeft ==
    CASE prog = "update" -> "reboot"
      [] prog = "provision" -> "poweroff"
      [] OTHER -> "done"
\* a Mount bound outside the block, alive until main_inner returns
ScopeEnd_KeepMount == ScopeLeft

\* where control goes when the block holding `_mount` reaches its closing
\* brace: the Mount is dropped there, before the statement after the block
ScopeEnd == "drop"
\* a drop that discards the block's error
DropResult_Swallow(res, umount_ok) == "Ok"

\* a drop whose umount failure replaces the block's value
DropResult_Masks(res, umount_ok) == IF umount_ok THEN res ELSE "Failed to unmount"

\* a drop whose successful umount stands for the success of the block
DropResult_OkIfUnmounted(res, umount_ok) == IF umount_ok THEN "Ok" ELSE res

\* Drop for Mount: a failed umount is logged (warn!) and the value the block
\* produced is what the caller gets
DropResult(res, umount_ok) == res

\* the configuration each binary renders
Rendered ==
    IF prog = "update" THEN GrubTwo(new.uuid, CurrentUuid) ELSE GrubOne(CurrentUuid)

\* mount_boot(log.clone())?  (Mount::new)
MountBoot ==
    /\ pc = "mount"
    /\ \/ /\ trace' = Append(trace, Ev("mount", FALSE, NoPath))
          /\ Fail("Mount to /boot failed")
          /\ UNCHANGED mount_held
       \/ /\ trace' = Append(trace, Ev("mount", TRUE, NoPath))
          /\ mount_held' = TRUE
          /\ pc' = ScopeEntry /\ result' = result
    /\ UNCHANGED <<prog, updVars, diskVars, dlVars, cfg, cfg0, scope_res, retryVars,
                   wait_i, findVars, partVars, histVars>>

\* init.rs: create_dir_all("/boot/grub") inside the mount
InitMkdirGrub ==
    /\ prog = "provision" /\ pc = "mkdir_grub"
    /\ \/ /\ trace' = Append(trace, Ev("mkdir_grub", FALSE, NoPath))
          /\ scope_res' = "Failed to create /boot/grub"
          /\ pc' = ScopeFailed
       \/ /\ trace' = Append(trace, Ev("mkdir_grub", TRUE, NoPath))
          /\ pc' = "cfg_create"
          /\ UNCHANGED scope_res
    /\ UNCHANGED <<prog, result, updVars, diskVars, dlVars, cfg, cfg0, mount_held,
                   retryVars, wait_i, findVars, partVars, histVars>>

\* File::create("/boot/grub/grub.cfg"): the file is truncated when it opens
CfgCreate ==
    /\ pc = "cfg_create"
    /\ \/ /\ trace' = Append(trace, Ev("cfg_create", FALSE, NoPath))
          /\ scope_res' = "Failed to open grub config for writing"
          /\ pc' = ScopeFailed
          /\ UNCHANGED cfg
       \/ /\ trace' = Append(trace, Ev("cfg_create", TRUE, NoPath))
          /\ cfg' = <<>>
          /\ pc' = "cfg_write"
          /\ UNCHANGED scope_res
    /\ UNCHANGED <<prog, result, updVars, diskVars, dlVars, cfg0, mount_held,
                   retryVars, wait_i, findVars, partVars, histVars>>

\* .write_all(template.render())
CfgWrite ==
    /\ pc = "cfg_write"
    /\ \/ /\ trace' = Append(trace, Ev("cfg_write", FALSE, NoPath))
          /\ \E part \in Prefixes(Rendered) : cfg' = part
          /\ scope_res' = "Failed to write grub file contents"
          /\ pc' = ScopeFailed
       \/ /\ trace' = Append(trace, Ev("cfg_write", TRUE, NoPath))
          /\ cfg' = Rendered
          /\ pc' = "grub_install"
          /\ UNCHANGED scope_res
    /\ UNCHANGED <<prog, result, updVars, diskVars, dlVars, cfg0, mount_held,
                   retryVars, wait_i, findVars, partVars, histVars>>

\* Command::new("grub-install").arg("--target=i386-pc").arg(root_disk.path).run()
\* and the end of the block
GrubInstall ==
    /\ pc = "grub_install"
    /\ \/ /\ trace' = Append(trace, Ev("grub_install", FALSE, root_disk))
          /\ scope_res' = "grub-install failed"
          /\ pc' = ScopeFailed
       \/ /\ trace' = Append(trace, Ev("grub_install", TRUE, root_disk))
          /\ scope_res' = "Ok"
          /\ pc' = ScopeEnd
    /\ UNCHANGED <<prog, result, updVars, diskVars, dlVars, cfg, cfg0, mount_held,
                   retryVars, wait_i, findVars, partVars, histVars>>

\* a committer that makes menu entry 0 the default instead of the running uuid
SetDefaultArg_EntryZero(current_uuid) == <<"0">>

\* the argument of grub-set-default: `.arg(current.uuid)`
SetDefaultArg(current_uuid) == <<current_uuid>>

\* success.rs: Command::new("grub-set-default").arg(current.uuid).run()?; Ok(())
SucGrubSetDefault ==
    /\ prog = "success" /\ pc = "set_default"
    /\ \/ /\ trace' = Append(trace, Ev("grub_set_default", FALSE, SetDefaultArg(CurrentUuid)))
          /\ scope_res' = "Failed to run grub-set-default"
          /\ pc' = ScopeFailed
       \/ /\ trace' = Append(trace, Ev("grub_set_default", TRUE, SetDefaultArg(CurrentUuid)))
          /\ scope_res' = "Ok"
          /\ pc' = ScopeEnd
    /\ UNCHANGED <<prog, result, updVars, diskVars, dlVars, cfg, cfg0, mount_held,
                   retryVars, wait_i, findVars, partVars, histVars>>

\* `_mount` goes out of scope: Mount::drop runs umount, then the block's value
\* reaches the code after the block (`?` on an error)
MountDrop ==
    /\ pc = "drop"
    /\ \E umount_ok \in BOOLEAN :
         LET res == DropResult(scope_res, umount_ok) IN
         /\ trace' = Append(trace, Ev("umount", umount_ok, NoPath))
         /\ mount_held' = FALSE
         /\ IF res = "Ok"
            THEN /\ pc' = ScopeLeft
                 /\ result' = IF ScopeLeft = "done" THEN "Ok" ELSE result
            ELSE Fail(res)
    /\ UNCHANGED <<prog, updVars, diskVars, dlVars, cfg, cfg0, scope_res, retryVars,
                   wait_i, findVars, partVars, histVars>>

\* update.rs: sleep 15 s, Command::new("reboot").run()?
UpdReboot ==
    /\ prog = "update" /\ pc = "reboot"
    /\ \/ /\ trace' = Append(trace, Ev("reboot", FALSE, NoPath))
          /\ Fail("Failed to run reboot")
       \/ /\ trace' = Append(trace, Ev("reboot", TRUE, NoPath))
          /\ pc' = "done" /\ result' = "Ok"
    /\ UNCHANGED <<prog, updVars, diskVars, dlVars, bootVars, retryVars, wait_i, findVars, partVars, histVars>>

\* --------------------------------------------------------------- init.rs
\* what lsblk may print before the disk is partitioned
InitLsblk ==
    UNION {[1..n -> {MkDisk(1, "disk", <<>>), MkDisk(2, "loop", <<>>)}] : n \in 0..2}

\* lsblk()?.into_iter().filter(|d| d.type_field == "disk").next()
FirstDisk(res) == SelectSeq(res, LAMBDA d : d.type_field = "disk")

\* one command of the parted script; part is the value of the counter `part`
\* when the command is added, from/to are MiB offsets
PartedCmd(cmd, part, from, to, label) ==
    [cmd |-> cmd, part |-> part, from |-> from, to |-> to, label |-> label]

\* the argument "-1" that ends the rw partition: parted's end of the disk
EndOfDisk == 0 - 1

\* a slot loop that advances the offset by size MiB instead of size GiB
RECURSIVE RootSlotCmds_GiBAsMiB(_, _, _, _)
RootSlotCmds_GiBAsMiB(i, part, off, size) ==
    IF i > Len(ROOT_LABELS)
    THEN [cmds |-> <<>>, part |-> part, off |-> off]
    ELSE LET p == part + 1
             end == off + size
             rest == RootSlotCmds_GiBAsMiB(i + 1, p, end, size)
         IN [cmds |-> <<PartedCmd("mkpart", p, off, end, "ext4"),
                        PartedCmd("name", p, 0, 0, ROOT_LABELS[i]),
                        PartedCmd("align-check", p, 0, 0, "optimal")>> \o rest.cmds,
             part |-> rest.part, off |-> rest.off]

\* `for l in ROOT_LABELS { part += 1; mkpart off .. off + size * 1024; name;
\* align-check }`, from label index i on: the commands and the counters after
RECURSIVE RootSlotCmds(_, _, _, _)
RootSlotCmds(i, part, off, size) ==
    IF i > Len(ROOT_LABELS)
    THEN [cmds |-> <<>>, part |-> part, off |-> off]
    ELSE LET p == part + 1
             end == off + size * 1024
             rest == RootSlotCmds(i + 1, p, end, size)
         IN [cmds |-> <<PartedCmd("mkpart", p, off, end, "ext4"),
                        PartedCmd("name", p, 0, 0, ROOT_LABELS[i]),
                        PartedCmd("align-check", p, 0, 0, "optimal")>> \o rest.cmds,
             part |-> rest.part, off |-> rest.off]

\* the commands of the single parted invocation, for config.size = size
PartedScript(size) ==
    LET grub_part == 0 + 1
        grub_from == 1
        grub_to == grub_from + 1
        boot_part == grub_part + 1
        boot_to == grub_to + 127
        roots == RootSlotCmds(1, boot_part, boot_to, size)
        rw_part == roots.part + 1
    IN <<PartedCmd("mklabel", 0, 0, 0, "gpt"),
         PartedCmd("mkpart", grub_part, grub_from, grub_to, "no-fs"),
         PartedCmd("set", 1, 0, 0, "bios_grub"),
         PartedCmd("mkpart", boot_part, grub_to, boot_to, "ext4"),
         PartedCmd("name", boot_part, 0, 0, BOOT_LABEL),
         PartedCmd("align-check", boot_part, 0, 0, "optimal")>>
       \o roots.cmds
       \o <<PartedCmd("mkpart", rw_part, roots.off, EndOfDisk, "ext4"),
            PartedCmd("name", rw_part, 0, 0, "rw"),
            PartedCmd("align-check", rw_part, 0, 0, "optimal")>>

\* slot sizes of the configs a full provisioning run is given
ConfigSizes == {1, MaxSlotGiB}

\* read the config, pick the first disk
InitStart ==
    /\ prog = "provision" /\ pc = "start"
    /\ \/ /\ Fail("Reading config")
          /\ UNCHANGED <<trace, root_disk, config_size>>
       \/ \E size \in ConfigSizes :
            /\ config_size' = size
            /\ \/ /\ Fail("Failed to run lsblk")
                  /\ trace' = Append(trace, Ev("lsblk", FALSE, NoPath))
                  /\ UNCHANGED root_disk
               \/ \E res \in InitLsblk :
                    /\ trace' = Append(trace, Ev("lsblk", TRUE, NoPath))
                    /\ IF FirstDisk(res) = <<>>
                       THEN Fail("couldn't find any disks") /\ UNCHANGED root_disk
                       ELSE /\ root_disk' = FirstDisk(res)[1].path
                            /\ pc' = "parted" /\ result' = result
    /\ UNCHANGED <<prog, new, root_parts, part_i, found_current, found_other_part,
                   other_digest, diskVars, dlVars, bootVars, retryVars, wait_i, findVars,
                   parted_script, histVars>>

\* the one parted --script command: mklabel, the mkparts and align-checks.
\* parted runs the commands in order and exits non-zero at the first one that
\* fails (a failed align-check included); the event records which one
InitParted ==
    /\ prog = "provision" /\ pc = "parted"
    /\ parted_script' = PartedScript(config_size)
    /\ \/ /\ \E k \in 1..Len(parted_script') :
               trace' = Append(trace, Ev("parted", FALSE, <<k>>))
          /\ Fail("Failed to run parted")
       \/ /\ trace' = Append(trace, Ev("parted", TRUE, <<>>))
          /\ pc' = "wait_dev" /\ result' = result
    /\ UNCHANGED <<prog, updVars, diskVars, dlVars, bootVars, retryVars, wait_i, findVars,
                   config_size, histVars>>

\* `for path in &[rw_path, &boot_path] { retry(.., || path.exists() ..)?; }`
InitWaitBegin ==
    /\ prog = "provision" /\ pc = "wait_dev" /\ r_pc = "idle"
    /\ RetryBegin(DevTotal, DevPeriod)
    /\ UNCHANGED <<runVars, updVars, diskVars, dlVars, bootVars, wait_i, findVars, partVars, histVars>>

\* the by-partlabel nodes waited for, in the order of the loop
WaitPaths == <<"rw", BOOT_LABEL>>

\* a loop that stops waiting after its first path
AfterWait_FirstOnly(i) == "mkfs_boot"

\* position after the wait for WaitPaths[i] returned Ok: the next path, or the
\* first mkfs after the last one
AfterWait(i) == IF i < Len(WaitPaths) THEN "wait_dev" ELSE "mkfs_boot"

InitWaitEnd ==
    /\ prog = "provision" /\ pc = "wait_dev" /\ r_pc = "ret"
    /\ RetryIdle
    /\ trace' = Append(trace, Ev("wait_dev", r_ret.ok, <<wait_i>>))
    /\ IF ~r_ret.ok
       THEN Fail(r_ret.err) /\ UNCHANGED wait_i
       ELSE /\ wait_i' = wait_i + 1
            /\ pc' = AfterWait(wait_i)
            /\ result' = result
    /\ UNCHANGED <<prog, updVars, diskVars, dlVars, bootVars, findVars, partVars, histVars>>

\* Command::new("mkfs.ext4").arg(boot_path).run()?; then the same for rw_path
InitMkfs ==
    /\ prog = "provision" /\ pc \in {"mkfs_boot", "mkfs_rw"}
    /\ \/ /\ trace' = Append(trace, Ev(pc, FALSE, NoPath))
          /\ Fail("Failed to run mkfs.ext4")
       \/ /\ trace' = Append(trace, Ev(pc, TRUE, NoPath))
          /\ pc' = IF pc = "mkfs_boot" THEN "mkfs_rw" ELSE "init_find"
          /\ result' = result
    /\ UNCHANGED <<prog, updVars, diskVars, dlVars, bootVars, retryVars, wait_i, findVars, partVars, histVars>>

\* `let root_part = find_root_parts(&log)?.1[0].clone();`
InitFindRootParts ==
    /\ prog = "provision" /\ pc = "init_find"
    /\ \/ /\ Fail("Failed to run lsblk")
          /\ trace' = Append(trace, Ev("lsblk", FALSE, NoPath))
          /\ UNCHANGED root_parts
       \/ \E t \in UpdateLsblk :
            LET r == find_root_parts(t) IN
            /\ trace' = Append(trace, Ev("lsblk", TRUE, NoPath))
            /\ IF r.ok
               THEN root_parts' = r.parts /\ pc' = "copy" /\ result' = result
               ELSE Fail("Expected to find 2 root partitions") /\ UNCHANGED root_parts
    /\ UNCHANGED <<prog, new, root_disk, part_i, found_current, found_other_part,
                   other_digest, diskVars, dlVars, bootVars, retryVars, wait_i, findVars, partVars, histVars>>

\* io::copy of the image file through the zstd decoder onto root_parts[0]
InitCopyImage ==
    /\ prog = "provision" /\ pc = "copy"
    /\ LET root_part == root_parts[1] IN
       \/ /\ Fail("Unable to open source version file")
          /\ UNCHANGED <<trace, content>>
       \/ /\ Fail("Unable to open target root partition for writing")
          /\ trace' = Append(trace, Ev("open_write", FALSE, root_part.path))
          /\ UNCHANGED content
       \/ /\ \E c \in Contents :
               content' = [p \in DOMAIN content \cup {root_part.path} |->
                              IF p = root_part.path THEN c ELSE content[p]]
          /\ \/ /\ trace' = trace \o <<Ev("open_write", TRUE, root_part.path),
                                       Ev("copy", FALSE, root_part.path)>>
                /\ Fail("Error while writing source image to root parition")
             \/ /\ trace' = trace \o <<Ev("open_write", TRUE, root_part.path),
                                       Ev("copy", TRUE, root_part.path)>>
                /\ pc' = "mkdir_boot" /\ result' = result
    /\ UNCHANGED <<prog, updVars, dlVars, bootVars, retryVars, wait_i, findVars, partVars, histVars>>

\* create_dir_all("/boot"), before the mount
InitMkdirBoot ==
    /\ prog = "provision" /\ pc = "mkdir_boot"
    /\ \/ /\ trace' = Append(trace, Ev("mkdir_boot", FALSE, NoPath))
          /\ Fail("Failed to create /boot for grub installation")
       \/ /\ trace' = Append(trace, Ev("mkdir_boot", TRUE, NoPath))
          /\ pc' = "mount" /\ result' = result
    /\ UNCHANGED <<prog, updVars, diskVars, dlVars, bootVars, retryVars, wait_i, findVars, partVars, histVars>>

\* Command::new("poweroff").run()?
InitPoweroff ==
    /\ prog = "provision" /\ pc = "poweroff"
    /\ \/ /\ trace' = Append(trace, Ev("poweroff", FALSE, NoPath))
          /\ Fail("Failed to run poweroff")
       \/ /\ trace' = Append(trace, Ev("poweroff", TRUE, NoPath))
          /\ pc' = "done" /\ result' = "Ok"
    /\ UNCHANGED <<prog, updVars, diskVars, dlVars, bootVars, retryVars, wait_i, findVars, partVars, histVars>>

\* ------------------------------------------------------------ success.rs
\* `let current = current_meta()?;`
SucStart ==
    /\ prog = "success" /\ pc = "start"
    /\ \/ Fail("Failed to parse current system meta")
       \/ pc' = "mount" /\ result' = result
    /\ UNCHANGED <<prog, trace, updVars, diskVars, dlVars, bootVars, retryVars, wait_i,
                   findVars, partVars, histVars>>

\* ------------------------------------------------------- the three binaries
InitCommon ==
    /\ pc = "start" /\ result = "running" /\ trace = <<>>
    /\ new = NoMeta /\ root_disk = NoPath /\ root_parts = <<>> /\ part_i = 1
    /\ found_current = FALSE /\ found_other_part = NoPath /\ other_digest = NoDigest
    /\ content = <<>>
    /\ digest = <<>> /\ written = <<>> /\ pending = <<>> /\ stream = <<>>
    /\ download_digest = NoDigest
    /\ cfg0 = cfg /\ mount_held = FALSE /\ scope_res = "none"
    /\ r_total = 0 /\ r_period = 0 /\ r_elapsed = 0
    /\ r_count = 0 /\ r_calls = 0 /\ r_last = "" /\ r_sleeps = <<>> /\ r_ret = NoRet
    /\ wait_i = 1
    /\ frp = NoFrp
    /\ config_size = 0 /\ parted_script = <<>>
    /\ runs = 0 /\ prev = NoPrev

Init ==
    /\ prog \in {"update", "provision", "success"}
    /\ cfg \in IF prog = "provision" THEN {<<>>}
               ELSE {GrubOne(CurrentUuid), GrubTwo(CurrentUuid, "v0")}
    /\ r_pc = "idle"
    /\ lsblk_res = <<>>
    /\ InitCommon

\* the steps of update
NextUpdate ==
    \/ UpdStart \/ RetryAttempt \/ RetrySleep \/ UpdFetchMeta \/ UpdFindRootParts
    \/ UpdSlot \/ UpdSlotsDone \/ UpdOpenTarget \/ UpdProxyWrite \/ UpdDownloadError
    \/ UpdVerify \/ MountBoot \/ CfgCreate \/ CfgWrite \/ GrubInstall \/ MountDrop
    \/ UpdReboot

Next ==
    \/ NextUpdate
    \/ InitStart \/ InitParted \/ InitWaitBegin \/ InitWaitEnd \/ InitMkfs
    \/ InitFindRootParts \/ InitCopyImage \/ InitMkdirBoot \/ InitMkdirGrub
    \/ InitPoweroff
    \/ SucStart \/ SucGrubSetDefault

Spec == Init /\ [][Next]_vars

\* ------------------------------------------- update run again by its timer
\* what a later run can find out about the run that ended
RunSummary ==
    [new |-> new,
     verified |-> (download_digest # NoDigest /\ download_digest = new.sha256),
     installed |-> DidOk("grub_install"),
     rebooted |-> DidOk("reboot"),
     image_len |-> Len(stream),
     root_disk |-> root_disk,
     root_parts |-> root_parts,
     content |-> content]

\* a new process of update: its locals are fresh, the disks and
\* /boot/grub/grub.cfg are as the run before left them
Restart ==
    /\ runs' = runs + 1
    /\ prev' = RunSummary
    /\ pc' = "start" /\ result' = "running" /\ trace' = <<>>
    /\ new' = NoMeta /\ root_disk' = NoPath /\ root_parts' = <<>> /\ part_i' = 1
    /\ found_current' = FALSE /\ found_other_part' = NoPath /\ other_digest' = NoDigest
    /\ digest' = <<>> /\ written' = <<>> /\ pending' = <<>> /\ stream' = <<>>
    /\ download_digest' = NoDigest
    /\ cfg0' = cfg /\ scope_res' = "none"
    /\ UNCHANGED <<prog, content, cfg, mount_held, retryVars, wait_i, findVars, partVars>>

\* update wrote and verified the image, then failed before the bootloader was
\* installed, and is started again by its timer: a new process, with the disks
\* and /boot/grub/grub.cfg as the failed run left them. (A run that ended
\* before it opened the partition leaves nothing behind, and the run after it
\* is a first run.)
UpdRerun ==
    /\ prog = "update" /\ pc = "done" /\ IsErr(result)
    /\ RunSummary.verified /\ ~RunSummary.installed
    /\ runs < MaxReruns
    /\ Restart

\* update installed the new version and rebooted; the new version did not come
\* up, the bootloader fell back to the entry of the version that ran before,
\* and its timer starts update again. The rollback is the bootloader's: it
\* leaves grub.cfg and the bytes of both root partitions as they were, and the
\* slot that ran before is the one mounted at / again.
UpdRollback ==
    /\ prog = "update" /\ pc = "done" /\ result = "Ok"
    /\ RunSummary.verified /\ RunSummary.installed /\ RunSummary.rebooted
    /\ runs < MaxReruns
    /\ Restart

InitRerun ==
    /\ prog = "update"
    /\ cfg \in {GrubOne(CurrentUuid), GrubTwo(CurrentUuid, "v0")}
    /\ r_pc = "idle"
    /\ lsblk_res = <<>>
    /\ InitCommon

NextRerun == NextUpdate \/ UpdRerun \/ UpdRollback

SpecRerun == InitRerun /\ [][NextRerun]_vars

\* ------------------------------------------------------ retry on its own
InitRetry ==
    /\ prog = "retry"
    /\ cfg = <<>>
    /\ lsblk_res = <<>>
    /\ InitCommon
    /\ r_pc = "idle"

\* retry is called with any budget and any positive period
RetryCall ==
    /\ prog = "retry" /\ pc = "start"
    /\ \E total_time \in 0..MaxTotal, period \in 1..MaxPeriod :
         RetryBegin(total_time, period)
    /\ pc' = "retrying"
    /\ UNCHANGED <<prog, result, trace, updVars, diskVars, dlVars, bootVars, wait_i,
                   findVars, partVars, histVars>>

NextRetry == RetryCall \/ RetryAttempt \/ RetrySleep

SpecRetry == InitRetry /\ [][NextRetry]_vars

\* ------------------------------------- retry, alone and inside the binaries
\* a bare call of retry, update up to the end of its network wait and
\* provision up to the end of its device-node waits
InitLive == (Init /\ prog \in {"update", "provision"}) \/ InitRetry

NextLive ==
    \/ RetryCall \/ RetryAttempt \/ RetrySleep
    \/ UpdStart \/ UpdFetchMeta
    \/ InitStart \/ InitParted \/ InitWaitBegin \/ InitWaitEnd

\* retry is straight-line code of a running process: a probe that was started
\* returns (RetryAttempt happens) and thread::sleep returns (RetrySleep happens)

SpecLive ==
    InitLive /\ [][NextLive]_vars /\ WF_vars(RetryAttempt) /\ WF_vars(RetrySleep)

\* -------------------------------------------- find_root_parts on its own
FindMaxDisks == 2
FindMaxParts == 3
FindLabels == {None, BOOT_LABEL, ROOT_LABELS[1], ROOT_LABELS[2]}
FindKids == UNION {[1..n -> FindLabels \X {None}] : n \in 0..FindMaxParts}
\* lsblk's tree for the devices d: a (type, partition labels) pair each
FindLsblk(d) == [i \in 1..Len(d) |-> MkDisk(i, d[i][1], d[i][2])]

InitFind ==
    /\ prog = "find_root_parts"
    /\ cfg = <<>>
    /\ r_pc = "idle"
    /\ \E n \in 0..FindMaxDisks :
         \E d \in [1..n -> {"disk", "loop"} \X FindKids] : lsblk_res = FindLsblk(d)
    /\ InitCommon

\* lsblk()? and the search
FindCall ==
    /\ prog = "find_root_parts" /\ pc = "start"
    /\ \/ /\ frp' = NoFrp
          /\ Fail("Failed to run lsblk")
       \/ /\ frp' = find_root_parts(lsblk_res)
          /\ pc' = "done"
          /\ result' = IF frp'.ok THEN "Ok" ELSE "Expected to find 2 root partitions"
    /\ UNCHANGED <<prog, trace, updVars, diskVars, dlVars, bootVars, retryVars, wait_i,
                   lsblk_res, partVars, histVars>>

NextFind == FindCall

SpecFind == InitFind /\ [][NextFind]_vars

\* ------------------------------------------ the parted script on its own
InitParted0 ==
    /\ prog = "parted"
    /\ cfg = <<>>
    /\ r_pc = "idle"
    /\ lsblk_res = <<>>
    /\ InitCommon

\* the script is built for any slot size the config may hold
PartedCall ==
    /\ prog = "parted" /\ pc = "start"
    /\ \E size \in 0..MaxSlotGiB :
         /\ config_size' = size
         /\ parted_script' = PartedScript(size)
    /\ pc' = "done" /\ result' = "Ok"
    /\ UNCHANGED <<prog, trace, updVars, diskVars, dlVars, bootVars, retryVars, wait_i,
                   findVars, histVars>>

NextParted == PartedCall

SpecParted == InitParted0 /\ [][NextParted]_vars

\* ---------------------------------------------------- ProxyWrite on its own
\* the counts n for which a writer offered len bytes may return Ok(n): the
\* Write contract allows any non-empty part of the buffer
WriterAccepts(len) == 1..len

InitProxy ==
    /\ prog = "proxy_write"
    /\ cfg = <<>>
    /\ r_pc = "idle"
    /\ lsblk_res = <<>>
    /\ InitCommon

\* a caller has the bytes of stream to put through the ProxyWrite
ProxyOpen ==
    /\ prog = "proxy_write" /\ pc = "start"
    /\ \E s \in Images : stream' = s /\ pending' = s
    /\ IF pending' = <<>> THEN pc' = "done" /\ result' = "Ok"
                          ELSE pc' = "writing" /\ result' = result
    /\ UNCHANGED <<prog, trace, updVars, diskVars, digest, written, download_digest,
                   bootVars, retryVars, wait_i, findVars, partVars, histVars>>

\* one ProxyWrite::write(buf) call: the caller offers the first m bytes it has
\* not yet seen accepted; a takes buf, then b takes n bytes of it or fails; the
\* caller keeps what was not reported as written for its next call
ProxyWriteCall ==
    /\ prog = "proxy_write" /\ pc = "writing"
    /\ \E m \in 1..Len(pending) :
         LET buf == Take(pending, m) IN
         /\ digest' = ProxyWriteA(digest, buf)
         /\ \/ /\ Fail("write failed")
               /\ UNCHANGED <<written, pending>>
            \/ \E n \in WriterAccepts(Len(buf)) :
                 /\ written' = ProxyWriteB(written, buf, n)
                 /\ pending' = Drop(pending, n)
                 /\ IF pending' = <<>> THEN pc' = "done" /\ result' = "Ok"
                                       ELSE pc' = pc /\ result' = result
    /\ UNCHANGED <<prog, trace, updVars, diskVars, stream, download_digest, bootVars,
                   retryVars, wait_i, findVars, partVars, histVars>>

NextProxy == ProxyOpen \/ ProxyWriteCall

SpecProxy == InitProxy /\ [][NextProxy]_vars

\* ------------------------------------------- external commands on their own
\* the commands the binaries run, and the helper each call site goes through
Commands ==
    {"parted", "mkfs.ext4", "lsblk", "ip", "mount", "umount", "grub-install",
     "grub-set-default", "poweroff", "reboot"}

Helper(cmd) ==
    CASE cmd \in {"lsblk", "ip"} -> "output"
      [] cmd = "mount" -> "mount"
      [] OTHER -> "run"

\* SimpleCommand::run: Ok(()) when the process was spawned and
\* o.status.success()
RunAccepts(spawned, code) == spawned /\ code = 0

\* Mount::new: Err when the spawn fails or !mount_out.status.success()
MountAccepts(spawned, code) == spawned /\ code = 0

\* lsblk() and has_internet_gw(): `.output()` then serde_json::from_slice of
\* output.stdout; output.status is not read
OutputAccepts(spawned, code, parses) == spawned /\ parses

\* whether the call site takes the command's outcome as a success
Accepted(cmd, spawned, code, parses) ==
    CASE Helper(cmd) = "run" -> RunAccepts(spawned, code)
      [] Helper(cmd) = "mount" -> MountAccepts(spawned, code)
      [] OTHER -> OutputAccepts(spawned, code, parses)

InitCmd ==
    /\ prog = "command"
    /\ cfg = <<>>
    /\ r_pc = "idle"
    /\ lsblk_res = <<>>
    /\ InitCommon

\* one external command is run: it may fail to spawn, exits with some status,
\* and its standard output parses as the expected JSON or not
CmdCall ==
    /\ prog = "command" /\ pc = "start"
    /\ \E cmd \in Commands, spawned \in BOOLEAN, code \in 0..MaxExit, parses \in BOOLEAN :
         LET ok == Accepted(cmd, spawned, code, parses) IN
         /\ trace' = <<Ev(cmd, ok, <<spawned, code, parses>>)>>
         /\ pc' = "done"
         /\ result' = IF ok THEN "Ok" ELSE "Failed to run"
    /\ UNCHANGED <<prog, updVars, diskVars, dlVars, bootVars, retryVars, wait_i,
                   findVars, partVars, histVars>>

NextCmd == CmdCall

SpecCmd == InitCmd /\ [][NextCmd]_vars

\* ================================================================ claims
OkBefore(op, k) == \E j \in 1..(k - 1) : trace[j].op = op /\ trace[j].ok

BootOps == {"mount", "cfg_create", "cfg_write", "grub_install", "umount"}
NoBootOps == \A k \in 1..Len(trace) : trace[k].op \notin BootOps

\* number of the returned root partitions that have a mountpoint
MountedCount == Cardinality({k \in 1..Len(root_parts) : root_parts[k].mountpoint # None})

\* C1: a run of update that finished its download with a digest different from
\* new.sha256 (the digest of the decompressed stream, which is the value
\* compared at update.rs line 125) has ended in failure, with /boot never
\* mounted, the bootloader configuration never opened or written and equal to
\* its value before the run, grub-install never run and reboot never issued.
C1_MismatchLeavesBootAlone ==
    (/\ prog = "update" /\ download_digest # NoDigest
     /\ (download_digest # new.sha256 \/ Sha256(stream) # new.sha256)) =>
        /\ pc = "done" /\ IsErr(result)
        /\ NoBootOps
        /\ ~Did("reboot")
        /\ cfg = cfg0
        /\ ~mount_held

C1_Witness ==
    /\ prog = "update" /\ pc = "done"
    /\ download_digest # NoDigest /\ download_digest # new.sha256
    /\ written # <<>>

\* C2: in a run of update every operation on /boot (mount, opening and writing
\* the configuration, grub-install) and the reboot come after a download of this
\* run whose digest was found equal to new.sha256, that digest being the digest
\* of the bytes the run wrote to the alternate partition; the reboot comes
\* after a successful configuration write and a successful grub-install; the
\* configuration differs from its value before the run only after that
\* verification.
C2_CommitOnlyAfterVerify ==
    prog = "update" =>
        /\ \A k \in 1..Len(trace) :
             trace[k].op \in BootOps \cup {"reboot"} =>
                 /\ download_digest = new.sha256
                 /\ Sha256(written) = new.sha256
                 /\ content[found_other_part] = Overwrite(content[found_other_part], written)
                 /\ OkBefore("open_write", k)
        /\ \A k \in 1..Len(trace) :
             trace[k].op = "reboot" =>
                 /\ OkBefore("cfg_write", k)
                 /\ OkBefore("grub_install", k)
                 /\ \E j \in 1..(k - 1) : trace[j].op = "cfg_write" /\ trace[j].ok
                                          /\ OkBefore("mount", j)
        /\ cfg # cfg0 => download_digest = new.sha256

C2_Witness ==
    /\ prog = "update" /\ pc = "done" /\ result = "Ok"
    /\ DidOk("reboot")
    /\ cfg = GrubTwo(new.uuid, CurrentUuid)

\* C3: update ends in an error, with no root partition opened for writing, the
\* bootloader configuration unchanged and no reboot, whenever the number of
\* root partitions with a mountpoint is not exactly one.
C3_AmbiguousSlotsFail ==
    (prog = "update" /\ pc = "done" /\ root_parts # <<>> /\ MountedCount # 1) =>
        /\ IsErr(result)
        /\ ~Did("open_write")
        /\ cfg = cfg0
        /\ ~Did("reboot")

\* C4: when the fetched manifest's uuid equals the current uuid, update has
\* returned Ok without enumerating partitions, reading a digest, opening a root
\* partition, downloading, mounting /boot, writing the configuration, running
\* grub-install or rebooting, whatever the manifest's sha256 and size.
C4_SameUuidNoop ==
    (prog = "update" /\ new # NoMeta /\ new.uuid = CurrentUuid) =>
        /\ pc = "done" /\ result = "Ok"
        /\ trace = <<Ev("get_meta", TRUE, NoPath)>>
        /\ content = <<>> /\ other_digest = NoDigest
        /\ stream = <<>> /\ written = <<>> /\ digest = <<>>
        /\ cfg = cfg0 /\ ~mount_held

C4_Witness ==
    /\ prog = "update" /\ pc = "done" /\ result = "Ok"
    /\ new.uuid = CurrentUuid
    /\ new.size = MaxImage /\ new.sha256 # Sha256(<<>>)

\* C5: when the uuids differ and the digest of the leading new.size bytes of an
\* unmounted root partition equals new.sha256, update has returned Ok without
\* opening a root partition for writing, downloading, touching /boot or
\* rebooting; and every root partition opened for writing had its digest read
\* and compared earlier in the run.
C5_FallbackNoop ==
    prog = "update" =>
        /\ (other_digest # NoDigest /\ other_digest = new.sha256) =>
             /\ pc = "done" /\ result = "Ok"
             /\ ~Did("open_write")
             /\ stream = <<>> /\ written = <<>>
             /\ NoBootOps /\ cfg = cfg0
             /\ ~Did("reboot")
        /\ \A k \in 1..Len(trace) :
             trace[k].op = "open_write" =>
                 \E j \in 1..(k - 1) : trace[j] = Ev("file_digest", TRUE, trace[k].arg)

C5_Witness ==
    /\ prog = "update" /\ pc = "done" /\ result = "Ok"
    /\ new.uuid # CurrentUuid
    /\ MountedCount = 1
    /\ new.size > 0
    /\ \E p \in DOMAIN content : file_digest(content[p], new.size) = new.sha256

\* the partitions of type-"disk" devices that carry a root-slot label
RootPaths(res) ==
    UNION {{res[i].children[j].path : j \in {j \in 1..Len(res[i].children) :
                                              IsRootLabel(res[i].children[j].partlabel)}} :
           i \in {i \in 1..Len(res) : res[i].type_field = "disk"}}

\* one disk carries exactly two root-labelled partitions, and there are no others
SingleRootDisk(res) ==
    /\ Cardinality(RootPaths(res)) = 2
    /\ \E i \in 1..Len(res) :
         res[i].type_field = "disk" /\ Len(RootChildren(res[i])) = 2

\* C6: find_root_parts returns Ok only when a single disk carries exactly two
\* root-labelled partitions, the partitions returned being children of the
\* disk returned; for every other topology it returns an error.
C6_FindRootPartsExact ==
    (prog = "find_root_parts" /\ pc = "done") =>
        /\ frp.ok =>
             /\ frp.disk.type_field = "disk"
             /\ Len(RootChildren(frp.disk)) = 2
             /\ \A k \in 1..Len(frp.parts) :
                  \E j \in 1..Len(frp.disk.children) : frp.disk.children[j] = frp.parts[k]
        /\ ~SingleRootDisk(lsblk_res) => ~frp.ok

\* C7: once mount_boot has succeeded, a failing operation inside the block that
\* holds the Mount is followed at once by one umount of /boot, before
\* main_inner returns; a run has attempted exactly one umount when it ends
\* after a successful mount, and none when mount_boot failed, in which case it
\* ends in an error.
ScopeOps == {"mkdir_grub", "cfg_create", "cfg_write", "grub_install", "grub_set_default"}

C7_UnmountOnEveryExit ==
    /\ Count("umount") <= 1
    /\ \A k \in 1..Len(trace) :
         (trace[k].op \in ScopeOps /\ ~trace[k].ok) =>
             /\ OkBefore("mount", k)
             /\ k < Len(trace) => trace[k + 1].op = "umount"
             /\ pc = "done" => k < Len(trace)
    /\ (pc = "done" /\ DidOk("mount")) => Count("umount") = 1
    /\ (Did("mount") /\ ~DidOk("mount")) =>
           pc = "done" /\ IsErr(result) /\ ~Did("umount")
    /\ \A k \in 1..Len(trace) : trace[k].op = "umount" => OkBefore("mount", k)

C7_Witness ==
    /\ pc = "done" /\ IsErr(result)
    /\ prog = "provision"
    /\ \E k \in 1..Len(trace) : trace[k] = Ev("cfg_write", FALSE, NoPath)
    /\ Count("umount") = 1

\* C8: after the umount on scope exit, failed or not, the run goes on as the
\* block's own result says: after an error of the block main_inner returns
\* that error, after success the run continues (and commit-boot-success returns
\* Ok); only reboot or poweroff can still fail it.
C8_UnmountNeverMasks ==
    Did("umount") =>
        IF scope_res = "Ok"
        THEN /\ pc \in {ScopeLeft, "done"}
             /\ prog = "success" => result = "Ok"
             /\ IsErr(result) => result \in {"Failed to run reboot", "Failed to run poweroff"}
        ELSE pc = "done" /\ result = scope_res

C8_Witness ==
    /\ prog = "success" /\ pc = "done" /\ result = "Ok"
    /\ \E k \in 1..Len(trace) : trace[k] = Ev("umount", FALSE, NoPath)

\* C9: retry returns an error only at a failed attempt at which the elapsed
\* time is at least the budget and at least two attempts were made, with that
\* attempt's error and with the number of probe invocations as attempt count;
\* a failed attempt that is followed by a sleep did not meet both conditions.
C9_GiveUpOnlyBothMet ==
    /\ (r_pc = "ret" /\ ~r_ret.ok) =>
           /\ r_ret.elapsed >= r_total
           /\ r_ret.attempts >= 2
           /\ r_ret.attempts = r_calls
           /\ r_ret.err = r_last /\ r_last # "Ok"
           /\ r_ret.elapsed = r_elapsed
    /\ r_pc = "sleep" => ~(r_elapsed >= r_total /\ r_calls >= 2)
    /\ r_pc = "sleep" => r_last # "Ok"

C9_Witness ==
    /\ r_pc = "ret" /\ ~r_ret.ok
    /\ r_total = 0 /\ r_ret.attempts = 2

\* C10: when the probe succeeds on its Nth invocation retry returns Ok at that
\* invocation, having slept N-1 times, each time for the period.
C10_SleepsBeforeSuccess ==
    /\ (r_pc = "ret" /\ r_ret.ok) =>
           /\ r_last = "Ok"
           /\ r_ret.attempts = r_calls
           /\ Len(r_sleeps) = r_calls - 1
           /\ \A k \in 1..Len(r_sleeps) : r_sleeps[k] = r_period
    /\ r_pc = "loop" => Len(r_sleeps) = r_calls

C10_Witness ==
    /\ r_pc = "ret" /\ r_ret.ok
    /\ r_calls = 3 /\ Len(r_sleeps) = 2

\* the mkpart commands of a script, in order
Mkparts(script) == SelectSeq(script, LAMBDA c : c.cmd = "mkpart")

\* the label a script gives partition p: its name command, or the flag set on it
LabelOf(script, p) ==
    LET named == SelectSeq(script, LAMBDA c : c.cmd \in {"name", "set"} /\ c.part = p)
    IN IF named = <<>> THEN None ELSE named[1].label

\* C11: for every slot size s the script requests five partitions, in the order
\* grub, boot, root slot A, root slot B, rw, with the MiB ranges [1,2], [2,129],
\* [129,129+1024s], [129+1024s,129+2048s], [129+2048s, end of disk]; each
\* starts where the previous one ends and rw, the last, ends at the end of the
\* disk.
C11_PartitionLayout ==
    (parted_script # <<>>) =>
        LET mk == Mkparts(parted_script)
            s == config_size
        IN /\ Len(mk) = 5
           /\ \A i \in 1..5 : mk[i].part = i
           /\ <<LabelOf(parted_script, 1), LabelOf(parted_script, 2),
                LabelOf(parted_script, 3), LabelOf(parted_script, 4),
                LabelOf(parted_script, 5)>>
                = <<"bios_grub", BOOT_LABEL, ROOT_LABELS[1], ROOT_LABELS[2], "rw">>
           /\ <<mk[1].from, mk[1].to>> = <<1, 2>>
           /\ <<mk[2].from, mk[2].to>> = <<2, 129>>
           /\ <<mk[3].from, mk[3].to>> = <<129, 129 + 1024 * s>>
           /\ <<mk[4].from, mk[4].to>> = <<129 + 1024 * s, 129 + 2048 * s>>
           /\ <<mk[5].from, mk[5].to>> = <<129 + 2048 * s, EndOfDisk>>
           /\ \A i \in 1..4 : mk[i + 1].from = mk[i].to /\ mk[i].from <= mk[i].to

C11_Witness ==
    /\ prog = "parted" /\ pc = "done"
    /\ config_size = MaxSlotGiB
    /\ Mkparts(parted_script)[4].to = 129 + 2048 * MaxSlotGiB

\* C12: every partition the script creates is followed, before the next
\* partition is created, by an optimal-alignment check of that partition, and
\* a run whose parted invocation failed (a failed alignment check included)
\* ends in an error without any mkfs.
C12_EveryPartitionAlignChecked ==
    (prog = "provision" /\ parted_script # <<>>) =>
        /\ \A i \in 1..Len(parted_script) :
             parted_script[i].cmd = "mkpart" =>
                \E j \in (i + 1)..Len(parted_script) :
                   /\ parted_script[j].cmd = "align-check"
                   /\ parted_script[j].part = parted_script[i].part
                   /\ \A m \in (i + 1)..j : parted_script[m].cmd # "mkpart"
        /\ (\E k \in 1..Len(trace) : trace[k].op = "parted" /\ ~trace[k].ok) =>
             /\ IsErr(result)
             /\ ~Did("mkfs_boot") /\ ~Did("mkfs_rw")

\* the device wait for WaitPaths[i] returned Ok before event k
WaitedBefore(i, k) ==
    \E j \in 1..(k - 1) : trace[j].op = "wait_dev" /\ trace[j].ok /\ trace[j].arg = <<i>>

\* C13: in provision each mkfs comes after both by-partlabel nodes (rw and
\* boot) were seen to exist by a retry with a budget of 300 s and a period of
\* 10 s; a wait that gives up ends the run in an error with no mkfs, no image
\* write, no bootloader step and no poweroff.
C13_FormatAfterDeviceNodes ==
    (prog = "provision") =>
        /\ \A k \in 1..Len(trace) :
             trace[k].op \in {"mkfs_boot", "mkfs_rw"} =>
                \A i \in 1..2 : WaitedBefore(i, k)
        /\ (pc = "wait_dev" /\ r_pc # "idle") =>
             /\ r_total = 300 /\ r_period = 10
             /\ wait_i \in 1..2
        /\ \A k \in 1..Len(trace) :
             (trace[k].op = "wait_dev" /\ ~trace[k].ok) =>
                /\ pc = "done" /\ IsErr(result) /\ k = Len(trace)
                /\ ~Did("mkfs_boot") /\ ~Did("mkfs_rw") /\ ~Did("open_write")
                /\ NoBootOps /\ ~Did("poweroff")

C13_Witness ==
    /\ prog = "provision"
    /\ DidOk("mkfs_boot") /\ DidOk("mkfs_rw")
    /\ WaitedBefore(1, Len(trace)) /\ WaitedBefore(2, Len(trace))

\* the steps of provision, in their order; events of other steps (lsblk,
\* directory creation, the mount) have rank 0
StepRank(op) ==
    CASE op = "parted" -> 1
      [] op = "wait_dev" -> 2
      [] op = "mkfs_boot" -> 3
      [] op = "mkfs_rw" -> 4
      [] op \in {"open_write", "copy"} -> 5
      [] op \in {"cfg_create", "cfg_write"} -> 6
      [] op = "grub_install" -> 7
      [] op = "umount" -> 8
      [] op = "poweroff" -> 9
      [] OTHER -> 0

\* the events of provision's steps occur in the fixed order
StepsInOrder ==
    \A j, k \in 1..Len(trace) :
       (j < k /\ StepRank(trace[j].op) > 0 /\ StepRank(trace[k].op) > 0) =>
          StepRank(trace[j].op) <= StepRank(trace[k].op)

\* every step before the poweroff has been done
StepsDone ==
    /\ DidOk("parted") /\ WaitedBefore(1, Len(trace)) /\ WaitedBefore(2, Len(trace))
    /\ DidOk("mkfs_boot") /\ DidOk("mkfs_rw") /\ DidOk("copy")
    /\ DidOk("cfg_write") /\ DidOk("grub_install") /\ Did("umount")

\* C14 as stated: the steps of provision run in the fixed order, a failed step
\* ends the run in an error with no later step executed, and poweroff comes
\* only after every earlier step succeeded.
C14_AnyFailureStopsAll ==
    (prog = "provision") =>
        /\ StepsInOrder
        /\ \A j \in 1..Len(trace) :
             ~trace[j].ok => /\ j = Len(trace)
                             /\ pc = "done" => IsErr(result)
        /\ \A k \in 1..Len(trace) :
             trace[k].op = "poweroff" =>
                StepsDone /\ \A j \in 1..(k - 1) : trace[j].ok

\* C14 amended: the steps of provision run in the fixed order; a failed step
\* other than the unmount ends the run in an error and no later step is
\* executed except one unmount of /boot, attempted exactly when /boot had been
\* mounted; a failed unmount changes nothing, so poweroff comes only after
\* every earlier step other than the unmount succeeded and the unmount was
\* attempted.
C14_ProvisionOrder ==
    (prog = "provision") =>
        /\ StepsInOrder
        /\ \A j \in 1..Len(trace) :
             (~trace[j].ok /\ trace[j].op # "umount") =>
                /\ \A k \in (j + 1)..Len(trace) :
                     /\ trace[k].op = "umount"
                     /\ k = j + 1
                     /\ OkBefore("mount", j)
                /\ pc = "done" => /\ IsErr(result)
                                  /\ OkBefore("mount", j) => Count("umount") = 1
        /\ \A k \in 1..Len(trace) :
             trace[k].op = "poweroff" =>
                /\ StepsDone
                /\ \A j \in 1..(k - 1) : trace[j].op # "umount" => trace[j].ok
        /\ Count("umount") <= 1

C14_Witness ==
    /\ prog = "provision" /\ pc = "done"
    /\ Did("poweroff")
    /\ \E j \in 1..Len(trace) : trace[j].op = "umount" /\ ~trace[j].ok

\* C15: commit-boot-success runs grub-set-default with current.uuid only while
\* the /boot mount is held: after a successful mount and before any umount,
\* never when reading the current meta or the mount failed, at most once in a
\* run, and the run then attempts the umount right after it, whether it
\* succeeded or not.
C15_SetDefaultUnderMount ==
    (prog = "success") =>
        /\ pc = "set_default" => mount_held
        /\ Count("grub_set_default") <= 1
        /\ \A k \in 1..Len(trace) :
             trace[k].op = "grub_set_default" =>
                /\ trace[k].arg = <<CurrentUuid>>
                /\ OkBefore("mount", k)
                /\ \A j \in 1..(k - 1) : trace[j].op # "umount"
                /\ pc = "done" => /\ Len(trace) = k + 1
                                  /\ trace[k + 1].op = "umount"
                                  /\ (result = "Ok") = trace[k].ok
        /\ (pc = "done" /\ ~DidOk("mount")) =>
             /\ ~Did("grub_set_default") /\ ~Did("umount") /\ IsErr(result)

C15_Witness ==
    /\ prog = "success" /\ pc = "done"
    /\ \E k \in 1..Len(trace) :
         /\ trace[k].op = "grub_set_default" /\ ~trace[k].ok
         /\ k < Len(trace) /\ trace[k + 1].op = "umount"

\* C16: after any sequence of write calls through a ProxyWrite by a caller that
\* re-submits what a short write left, none of which failed, the bytes writer a
\* received are the bytes writer b accepted.
C16_DigestCoversPersisted ==
    (prog \in {"proxy_write", "update"} /\ ~IsErr(result)) => digest = written

\* the run has just read the digest of an unmounted root partition
DigestJustRead ==
    /\ prog = "update" /\ trace # <<>>
    /\ trace[Len(trace)].op = "file_digest" /\ trace[Len(trace)].ok

\* C17: the digest the fallback check compares is that of the first new.size
\* bytes of the partition: every content that agrees with the partition on
\* those bytes gives the same digest and the same decision, whatever follows
\* them, and a partition shorter than new.size is hashed whole, without error.
C17_FallbackDigestBounded ==
    DigestJustRead =>
        LET c == content[trace[Len(trace)].arg]
            lead == SubSeq(c, 1, Min(new.size, Len(c)))
        IN /\ other_digest = Sha256(lead)
           /\ \A c2 \in Contents :
                SubSeq(c2, 1, Min(new.size, Len(c2))) = lead =>
                   /\ file_digest(c2, new.size) = other_digest
                   /\ (file_digest(c2, new.size) = new.sha256)
                         = (pc = "done" /\ result = "Ok")
           /\ new.size > Len(c) => other_digest = Sha256(c)

C17_Witness ==
    /\ DigestJustRead
    /\ pc = "done" /\ result = "Ok"
    /\ LET c == content[trace[Len(trace)].arg]
       IN /\ new.size < Len(c)
          /\ Sha256(c) # new.sha256
          /\ \E c2 \in Contents : c2 # c /\ file_digest(c2, new.size) = new.sha256

\* C18: an external command that exits with a non-zero status (or cannot be
\* started) is never taken as a success by the binary that ran it, lsblk and
\* `ip route` included, even when their standard output parses as JSON.
C18_NonZeroExitFails ==
    (prog = "command" /\ pc = "done") =>
        LET e == trace[1]
            spawned == e.arg[1]
            code == e.arg[2]
        IN (~spawned \/ code # 0) => (~e.ok /\ IsErr(result))

\* C19: in update a root partition is opened for writing only if it had no
\* mountpoint when the partitions were enumerated and the other root partition
\* had one; no partition that had a mountpoint is opened for writing.
C19_OnlyAlternateWritten ==
    (prog = "update") =>
        \A k \in 1..Len(trace) :
           trace[k].op = "open_write" =>
              /\ \E i \in 1..Len(root_parts) :
                   /\ root_parts[i].path = trace[k].arg
                   /\ root_parts[i].mountpoint = None
                   /\ \E j \in 1..Len(root_parts) :
                        j # i /\ root_parts[j].mountpoint # None
              /\ \A i \in 1..Len(root_parts) :
                   root_parts[i].mountpoint # None => root_parts[i].path # trace[k].arg
              /\ trace[k].arg = found_other_part

C19_Witness ==
    /\ prog = "update"
    /\ DidOk("open_write")
    /\ written # <<>>
    /\ \E i \in 1..Len(root_parts) : root_parts[i].mountpoint # None

\* the run ended through the fallback-digest no-op
FallbackExit == DigestJustRead /\ pc = "done" /\ result = "Ok"

\* C20: when update ends through the fallback-digest no-op, the bootloader
\* configuration has an entry for the new version; and a run that follows one
\* which verified its download but failed before the bootloader was installed,
\* and fetches the same manifest, does not end as that no-op.
C20_FallbackNoopHasEntry ==
    (prog = "update") =>
        /\ FallbackExit => \E i \in 1..Len(cfg) : cfg[i] = new.uuid
        /\ (runs > 0 /\ prev.verified /\ ~prev.installed /\ new = prev.new) =>
             ~FallbackExit

\* a run of update that follows a run which downloaded, verified and installed
\* the manifest's version and rebooted, after which the bootloader rolled back;
\* the manifest's size is the length of the decompressed image
AfterRollback ==
    /\ prog = "update" /\ runs > 0
    /\ prev.verified /\ prev.installed /\ prev.rebooted
    /\ prev.new.size = prev.image_len

\* the errors of steps that read the machine or the network before the
\* fallback comparison is made
ReadErrors ==
    {"Failed to parse current system meta", "version_bucket",
     "Failed to download meta for new version", "Fetching new version meta",
     "Failed to run lsblk", "file_digest"}

MountsOk == Cardinality({k \in 1..Len(trace) : trace[k] = Ev("mount", TRUE, NoPath)})

\* the commands that end a run by stopping the machine
HaltOps == {"reboot", "poweroff"}

\* C22: in update and provision every reboot or poweroff command comes after
\* an attempt to unmount /boot that followed the mount, with no mount in
\* between; when control stands at reboot or poweroff, and ever after, no Mount
\* of /boot is alive; /boot is mounted at most once in a run, a Mount is alive
\* exactly from that mount to the unmount attempt, and there is at most one
\* unmount attempt, made only for a mount that succeeded.
C22_UnmountBeforeHalt ==
    (prog \in {"update", "provision"}) =>
        /\ \A k \in 1..Len(trace) :
             trace[k].op \in HaltOps =>
                \E j \in 1..(k - 1) :
                   /\ trace[j].op = "umount"
                   /\ \E i \in 1..(j - 1) : trace[i] = Ev("mount", TRUE, NoPath)
                   /\ \A i \in (j + 1)..(k - 1) : trace[i].op # "mount"
        /\ pc \in HaltOps => (~mount_held /\ Did("umount"))
        /\ (Did("reboot") \/ Did("poweroff")) => ~mount_held
        /\ MountsOk <= 1
        /\ mount_held <=> (MountsOk = 1 /\ ~Did("umount"))
        /\ Count("umount") <= MountsOk
        /\ pc = "mount" => ~mount_held

C22_Witness ==
    /\ prog = "update"
    /\ DidOk("reboot")
    /\ ~mount_held
    /\ \E k \in 1..Len(trace) : trace[k] = Ev("umount", FALSE, NoPath)

\* ceil(a / b) for b > 0
CeilDiv(a, b) == (a + b - 1) \div b

\* max(2, ceil(budget / period) + 1)
AttemptBound(total_time, period) ==
    IF CeilDiv(total_time, period) + 1 > 2 THEN CeilDiv(total_time, period) + 1 ELSE 2

\* a call of retry is under way
Retrying == r_pc \in {"loop", "sleep"}

\* C23: with a positive period, a call of retry makes no more than
\* max(2, ceil(budget / period) + 1) attempts; when its last probe failed it
\* has returned that probe's error, after at least two attempts unless the probe
\* succeeded before; and every call that is under way returns, the network
\* wait of update and the device-node waits of provision among them.
C23_RetryTerminates ==
    /\ []((r_pc # "idle") =>
            /\ r_period > 0
            /\ r_count <= AttemptBound(r_total, r_period)
            /\ r_calls = r_count)
    /\ []((r_pc = "ret" /\ r_last # "Ok") =>
            /\ ~r_ret.ok /\ r_ret.err = r_last
            /\ r_ret.attempts = r_count /\ r_count >= 2)
    /\ (Retrying ~> (r_pc = "ret"))

C23_Witness ==
    /\ prog = "update" /\ pc = "wait_net"
    /\ r_pc = "ret" /\ ~r_ret.ok
    /\ r_count = AttemptBound(NetTotal, NetPeriod)
    /\ r_count > 2

====
